---- MODULE Spec2Model ----
(***************************************************************************)
(* Model of the video platform's core: the S3-backed content repository    *)
(* (S3Service), the DynamoDB review store (reviewService), the rating      *)
(* aggregation, and the carousel's windowed pagination                     *)
(* (VideoCarouselSection).                                                 *)
(***************************************************************************)
EXTENDS Integers, Sequences, FiniteSets, TLC

\* ------------------------------------------------------------------------
\* Bounds of the model
\* ------------------------------------------------------------------------

\* Longest list the carousel is given.
MaxVideos == 5

\* Last instant of the clock (Date.now / new Date()).
MaxClock == 2

\* Most replies one review collects.
MaxReplies == 2

\* Most reviewService calls the clients make in one run.
MaxCalls == 3

\* Most fetchAndFilterVideos calls one grid starts in one run.
MaxFetches == 4

\* ------------------------------------------------------------------------
\* Helpers
\* ------------------------------------------------------------------------

Min(a, b) == IF a <= b THEN a ELSE b

Max(a, b) == IF a >= b THEN a ELSE b

\* The elements of a finite set of integers, ascending.
RECURSIVE SortedSeq(_)
SortedSeq(S) ==
    IF S = {} THEN <<>>
    ELSE LET m == CHOOSE x \in S : \A y \in S : x <= y
         IN <<m>> \o SortedSeq(S \ {m})

\* ------------------------------------------------------------------------
\* State
\* ------------------------------------------------------------------------

VARIABLES
    \* VideoCarouselSection
    videos,         \* props.videos: the ordered list the section is given
    currentIndex,   \* useState currentIndex
    itemsPerPage,   \* useState itemsPerPage
    event,          \* the handler that ran last, with its argument
    advances,       \* number of nextSlide calls made in a wrap-around run
    \* shared
    now,            \* the wall clock read by new Date() / Date.now()
    \* reviewService and the DynamoDB table 'Reviews'
    reviewTable,    \* review id -> stored item, or NoItem
    session,        \* client -> the user getCurrentUser() returns there
    rop,            \* client -> the reviewService call it is running
    appended,       \* <<review id, reply>> appended to the stored item
    created,        \* review ids under which createReview has stored
    \* S3Service, the bucket, and the grid that lists it (VideoCarousel)
    blobs,          \* keys of the video and thumbnail objects in the bucket
    sidecars,       \* video id -> the metadata/<id>.json document, or NoObject
    issued,         \* number of video ids uuidv4() has handed out
    sop,            \* client -> the S3Service call it is running
    grid,           \* client -> the lists its grid shows
    deleted,        \* video ids whose metadata object a deleteVideo removed
    \* one mounted grid (VideoCarousel) and its overlapping fetches
    auth,           \* the user Amplify has signed in, or Null
    currentUser,    \* useState currentUser
    fetches,        \* fetchAndFilterVideos calls in flight: [n, username]
    started,        \* number of fetchAndFilterVideos calls started
    shown           \* allVideos, userVideos, loading, error of the grid

varsCarousel == <<videos, currentIndex, itemsPerPage, event, advances>>

varsReviews == <<reviewTable, session, rop, appended, created>>

varsCatalog == <<blobs, sidecars, issued, sop, grid, deleted>>

varsGrid == <<auth, currentUser, fetches, started, shown>>

vars == <<videos, currentIndex, itemsPerPage, event, advances, now,
          reviewTable, session, rop, appended, created,
          blobs, sidecars, issued, sop, grid, deleted,
          auth, currentUser, fetches, started, shown>>

\* ========================================================================
\* Carousel (VideoCarouselSection)
\* ========================================================================

\* A list is identified by the ranks of its items in upload-date order.
VideoLists == { SortedSeq(S) : S \in SUBSET (1..MaxVideos) }

\* Viewport widths, one per tier of updateItemsPerPage, and the thresholds.
WidthLarge == 1024

WidthMedium == 768

Widths == { WidthMedium - 1, WidthMedium, WidthLarge - 1, WidthLarge }

InitialItemsPerPage == 4

\* updateItemsPerPage: 4, 2 or 1 items by width tier.
ItemsForWidth(w) ==
    IF w >= WidthLarge THEN 4 ELSE IF w >= WidthMedium THEN 2 ELSE 1

\* Array.prototype.slice: a negative index counts from the end, both ends
\* are clamped to the array.
RelativeIndex(i, len) == IF i < 0 THEN Max(len + i, 0) ELSE Min(i, len)

JsSlice(s, start, end) ==
    LET from == RelativeIndex(start, Len(s))
        to   == RelativeIndex(end, Len(s))
    IN IF from >= to THEN <<>> ELSE SubSeq(s, from + 1, to)

\* nextSlide's updater: the variant that wraps one step late.
NextSlideIndexLate(prevIndex, perPage, len) ==
    LET nextIndex == prevIndex + perPage
    IN IF nextIndex > len THEN 0 ELSE nextIndex

\* nextSlide's updater.
NextSlideIndex(prevIndex, perPage, len) ==
    LET nextIndex == prevIndex + perPage
    IN IF nextIndex >= len THEN 0 ELSE nextIndex

\* prevSlide's updater: the variant without the clamp at 0.
PrevSlideIndexUnclamped(prevIndex, perPage, len) ==
    LET nextIndex == prevIndex - perPage
    IN IF nextIndex < 0 THEN len - perPage ELSE nextIndex

\* prevSlide's updater.
PrevSlideIndex(prevIndex, perPage, len) ==
    LET nextIndex == prevIndex - perPage
    IN IF nextIndex < 0 THEN Max(len - perPage, 0) ELSE nextIndex

\* goToPage's new index.
GoToPageIndex(pageIndex, perPage, len) ==
    LET newIndex == pageIndex * perPage
    IN Min(newIndex, len - perPage)

\* Math.ceil(videos.length / itemsPerPage)
totalPages == (Len(videos) + itemsPerPage - 1) \div itemsPerPage

\* Math.floor(currentIndex / itemsPerPage)
currentPage == currentIndex \div itemsPerPage

getVisibleVideos ==
    IF Len(videos) = 0 THEN <<>>
    ELSE LET startIndex == currentIndex
             endIndex   == Min(currentIndex + itemsPerPage, Len(videos))
         IN JsSlice(videos, startIndex, endIndex)

\* The section renders its buttons only when the list is not empty.
Rendered == Len(videos) # 0

MountCarousel ==
    /\ videos \in VideoLists
    /\ currentIndex = 0
    /\ itemsPerPage = InitialItemsPerPage
    /\ event = [name |-> "mount", arg |-> 0]
    /\ advances = 0

\* window 'resize' listener (also run once on mount)
Resize(w) ==
    /\ itemsPerPage' = ItemsForWidth(w)
    /\ event' = [name |-> "resize", arg |-> w]
    /\ UNCHANGED <<videos, currentIndex, advances>>
    /\ UNCHANGED <<now, varsReviews, varsCatalog, varsGrid>>

nextSlide ==
    /\ Rendered
    /\ currentIndex' = NextSlideIndex(currentIndex, itemsPerPage, Len(videos))
    /\ event' = [name |-> "next", arg |-> 0]
    /\ UNCHANGED <<videos, itemsPerPage, advances>>
    /\ UNCHANGED <<now, varsReviews, varsCatalog, varsGrid>>

prevSlide ==
    /\ Rendered
    /\ currentIndex' = PrevSlideIndex(currentIndex, itemsPerPage, Len(videos))
    /\ event' = [name |-> "prev", arg |-> 0]
    /\ UNCHANGED <<videos, itemsPerPage, advances>>
    /\ UNCHANGED <<now, varsReviews, varsCatalog, varsGrid>>

\* one pager dot per page, 0 .. totalPages - 1
goToPage(pageIndex) ==
    /\ Rendered
    /\ pageIndex \in 0..(totalPages - 1)
    /\ currentIndex' = GoToPageIndex(pageIndex, itemsPerPage, Len(videos))
    /\ event' = [name |-> "goto", arg |-> pageIndex]
    /\ UNCHANGED <<videos, itemsPerPage, advances>>
    /\ UNCHANGED <<now, varsReviews, varsCatalog, varsGrid>>

\* The parent passes a new list (setAllVideos / setUserVideos after a fetch);
\* the section stays mounted and keeps its index and page size.
SetVideos(list) ==
    /\ list # videos
    /\ videos' = list
    /\ event' = [name |-> "videos", arg |-> Len(list)]
    /\ UNCHANGED <<currentIndex, itemsPerPage, advances>>
    /\ UNCHANGED <<now, varsReviews, varsCatalog, varsGrid>>

NextCarousel ==
    \/ \E w \in Widths : Resize(w)
    \/ nextSlide
    \/ prevSlide
    \/ \E p \in 0..MaxVideos : goToPage(p)
    \/ \E l \in VideoLists : SetVideos(l)


\* ------------------------------------------------------------------------
\* Wrap-around runs: list and page size held fixed, nextSlide only.
\* ------------------------------------------------------------------------

MaxAdvances == MaxVideos + 1

CeilDiv(a, b) == (a + b - 1) \div b

InitAdvanceRun ==
    /\ videos \in VideoLists
    /\ Len(videos) >= 1
    /\ currentIndex = 0
    /\ itemsPerPage \in { ItemsForWidth(w) : w \in Widths }
    /\ event = [name |-> "mount", arg |-> 0]
    /\ advances = 0

Advance ==
    /\ Rendered
    /\ advances < MaxAdvances
    /\ currentIndex' = NextSlideIndex(currentIndex, itemsPerPage, Len(videos))
    /\ advances' = advances + 1
    /\ event' = [name |-> "next", arg |-> 0]
    /\ UNCHANGED <<videos, itemsPerPage>>
    /\ UNCHANGED <<now, varsReviews, varsCatalog, varsGrid>>


\* ========================================================================
\* Review store (reviewService over the DynamoDB table 'Reviews')
\* ========================================================================

Users == {"u1", "u2"}

Clients == {"c1", "c2"}

VideoIds == {"v1", "v2"}

Instants == 1..MaxClock

\* `${review.videoId}#${timestamp}`
ReviewId(videoId, timestamp) == <<videoId, timestamp>>

ReviewIds == { ReviewId(v, t) : v \in VideoIds, t \in Instants }

\* The videos whose reviews the clients work on.
ActiveVideos == {"v1"}

ActiveReviewIds == { ReviewId(v, t) : v \in ActiveVideos, t \in Instants }

\* The rating and comment pairs the callers pass in.
ReviewInputs == { [rating |-> 4, comment |-> "poor"],
                  [rating |-> 5, comment |-> "fine"] }

\* The reply text each client submits (distinct per client).
ReplyText(c) == IF c = "c1" THEN "thanks" ELSE "sorry"

\* user.signInDetails.loginId of a user
EmailOf(u) == <<u, "@">>

\* No item under a key (GetCommand's undefined Item).
NoItem == [absent |-> TRUE]

NoData == [none |-> TRUE]

\* JavaScript's undefined, read from an attribute an item does not have.
Undefined == "undefined"

Attr(item, a) == IF a \in DOMAIN item THEN item[a] ELSE Undefined

\* An update that stored the named attributes only, as a PutCommand of them
\* would.
ReplaceAttrs(item, upd) == upd

\* UpdateExpression 'set a = :x, ...' applied to an item: the named
\* attributes are written, every other attribute is kept.
SetAttrs(item, upd) ==
    [a \in (DOMAIN item) \cup (DOMAIN upd) |->
        IF a \in DOMAIN upd THEN upd[a] ELSE item[a]]

\* UpdateCommand addresses an item by key and creates it when it is absent.
ItemForUpdate(table, rid) ==
    IF table[rid] = NoItem THEN [id |-> rid] ELSE table[rid]

\* set replies = :reply -- the whole-field overwrite
OverwriteReplies(item, reply) == SetAttrs(item, [replies |-> <<reply>>])

\* set replies = list_append(if_not_exists(replies, :empty_list), :reply)
AppendReplies(item, reply) ==
    LET stored == IF "replies" \in DOMAIN item THEN item.replies ELSE <<>>
    IN SetAttrs(item, [replies |-> stored \o <<reply>>])

\* the ownership test of updateReview, dropped
MayEditAnyone(review, currentUserId) == TRUE

\* updateReview: review.userId !== currentUserId throws
MayEdit(review, currentUserId) == Attr(review, "userId") = currentUserId

\* the ownership test of deleteReview, dropped
MayDeleteAnyone(review, currentUserId) == TRUE

\* deleteReview: review.userId !== currentUserId throws
MayDelete(review, currentUserId) == Attr(review, "userId") = currentUserId

\* QueryCommand on the index 'videoId-index': the items whose videoId
\* attribute is the one asked for, here in key order.
getVideoReviews(videoId) ==
    LET hits == { t \in Instants :
                    /\ reviewTable[ReviewId(videoId, t)] # NoItem
                    /\ Attr(reviewTable[ReviewId(videoId, t)], "videoId")
                           = videoId }
        order == SortedSeq(hits)
    IN [i \in 1..Len(order) |-> reviewTable[ReviewId(videoId, order[i])]]

\* reviews.reduce((sum, review) => sum + review.rating, 0)
RECURSIVE ReduceRatings(_, _)
ReduceRatings(list, sum) ==
    IF list = <<>> THEN sum
    ELSE ReduceRatings(Tail(list), sum + Head(list).rating)

RECURSIVE Gcd(_, _)
Gcd(a, b) == IF b = 0 THEN a ELSE Gcd(b, a % b)

\* Number division with the fraction cut off (Math.floor of the quotient).
DivideTruncating(a, b) == [num |-> a \div b, den |-> 1]

\* JavaScript's a / b on small non-negative integers: the quotient itself,
\* kept as a fraction in lowest terms (two quotients are the same number
\* exactly when their fractions are equal).
Divide(a, b) ==
    LET g == Gcd(a, b) IN [num |-> a \div g, den |-> b \div g]

Zero == [num |-> 0, den |-> 1]

\* reviewService.getAverageRating
getAverageRating(videoId) ==
    LET reviews == getVideoReviews(videoId)
        total   == ReduceRatings(reviews, 0)
    IN [average |-> IF Len(reviews) # 0 THEN Divide(total, Len(reviews))
                    ELSE Zero,
        count   |-> Len(reviews)]

\* ReviewSection.averageRating over the panel's review list
RECURSIVE PanelReduce(_, _)
PanelReduce(list, acc) ==
    IF list = <<>> THEN acc
    ELSE PanelReduce(Tail(list), acc + Head(list).rating)

averageRating(reviews) ==
    IF Len(reviews) # 0 THEN Divide(PanelReduce(reviews, 0), Len(reviews))
    ELSE Zero

\* A client that runs no call.
Idle(c) == rop[c].pc \in {"idle", "done"}

\* Calls started so far, over all clients.
RECURSIVE CallsOf(_)
CallsOf(S) ==
    IF S = {} THEN 0
    ELSE LET c == CHOOSE x \in S : TRUE IN rop[c].n + CallsOf(S \ {c})

\* A client starts a call.
Start(c) ==
    /\ Idle(c)
    /\ CallsOf(Clients) < MaxCalls

\* A call: its ordinal among the client's calls, its operation, where it
\* stands, the key it addresses, the author its GetCommand found, the data it
\* carries, and its outcome.
Call(n, op, pc, id, author, data, result) ==
    [n |-> n, op |-> op, pc |-> pc, id |-> id, author |-> author,
     data |-> data, result |-> result]

NoCall == Call(0, "none", "idle", <<>>, Undefined, NoData, "none")

\* The next call of a client, in flight.
Begun(c, op, pc, id, author, data) ==
    Call(rop[c].n + 1, op, pc, id, author, data, "none")

\* The next call of a client, rejected at once.
Rejected(c, op, id, result) ==
    Call(rop[c].n + 1, op, "done", id, Undefined, NoData, result)

\* The running call of a client, completed.
Finished(c, result) ==
    Call(rop[c].n, rop[c].op, "done", rop[c].id, Undefined, NoData, result)

\* The replies appended to an item are forgotten with the item.
Forget(rid) == { p \in appended : p[1] # rid }

\* createReview: one PutCommand under a fresh id.
createReview(c, videoId, rating, comment) ==
    /\ Start(c)
    /\ LET timestamp == now
           reviewId  == ReviewId(videoId, timestamp)
           newReview == [userId    |-> session[c],
                         videoId   |-> videoId,
                         rating    |-> rating,
                         comment   |-> comment,
                         userEmail |-> EmailOf(session[c]),
                         id        |-> reviewId,
                         createdAt |-> timestamp,
                         updatedAt |-> timestamp,
                         replies   |-> <<>>]
       IN /\ reviewTable' = [reviewTable EXCEPT ![reviewId] = newReview]
          /\ appended' = Forget(reviewId)
          /\ created' = created \cup {reviewId}
          /\ rop' = [rop EXCEPT ![c] =
                 Rejected(c, "createReview", reviewId, "ok")]
    /\ UNCHANGED <<session, now, varsCarousel, varsCatalog, varsGrid>>

\* updateReview, first half: GetCommand, existence and ownership tests.
updateReviewGet(c, reviewId, data) ==
    /\ Start(c)
    /\ LET review == reviewTable[reviewId]
       IN rop' = [rop EXCEPT ![c] =
              IF review = NoItem
              THEN Rejected(c, "updateReview", reviewId, "NotFound")
              ELSE IF ~MayEdit(review, session[c])
              THEN Rejected(c, "updateReview", reviewId, "Unauthorized")
              ELSE Begun(c, "updateReview", "update", reviewId,
                         Attr(review, "userId"), data)]
    /\ UNCHANGED <<reviewTable, appended, created, session, now,
                 varsCarousel, varsCatalog, varsGrid>>

\* updateReview, second half: the UpdateCommand.
updateReviewSend(c) ==
    /\ rop[c].op = "updateReview"
    /\ rop[c].pc = "update"
    /\ LET reviewId == rop[c].id
           updated  == SetAttrs(ItemForUpdate(reviewTable, reviewId),
                                [comment   |-> rop[c].data.comment,
                                 rating    |-> rop[c].data.rating,
                                 updatedAt |-> now])
       IN /\ reviewTable' = [reviewTable EXCEPT ![reviewId] = updated]
          /\ rop' = [rop EXCEPT ![c] = Finished(c, "ok")]
    /\ UNCHANGED <<appended, created, session, now,
                 varsCarousel, varsCatalog, varsGrid>>

\* deleteReview, first half: GetCommand, existence and ownership tests.
deleteReviewGet(c, reviewId) ==
    /\ Start(c)
    /\ LET review == reviewTable[reviewId]
       IN rop' = [rop EXCEPT ![c] =
              IF review = NoItem
              THEN Rejected(c, "deleteReview", reviewId, "NotFound")
              ELSE IF ~MayDelete(review, session[c])
              THEN Rejected(c, "deleteReview", reviewId, "Unauthorized")
              ELSE Begun(c, "deleteReview", "delete", reviewId,
                         Attr(review, "userId"), NoData)]
    /\ UNCHANGED <<reviewTable, appended, created, session, now,
                 varsCarousel, varsCatalog, varsGrid>>

\* deleteReview, second half: the DeleteCommand.
deleteReviewSend(c) ==
    /\ rop[c].op = "deleteReview"
    /\ rop[c].pc = "delete"
    /\ reviewTable' = [reviewTable EXCEPT ![rop[c].id] = NoItem]
    /\ appended' = Forget(rop[c].id)
    /\ rop' = [rop EXCEPT ![c] = Finished(c, "ok")]
    /\ UNCHANGED <<created, session, now,
                 varsCarousel, varsCatalog, varsGrid>>

\* Replies stored under a key, and addReply calls on their way to it.
StoredReplies(rid) ==
    IF reviewTable[rid] = NoItem \/ "replies" \notin DOMAIN reviewTable[rid]
    THEN 0
    ELSE Len(reviewTable[rid].replies)

InFlightReplies(rid) ==
    Cardinality({ d \in Clients :
        rop[d].op = "addReply" /\ rop[d].pc = "send" /\ rop[d].id = rid })

\* addReply, first half: the reply is built from the caller's data and the
\* clock.
addReplyBuild(c, reviewId) ==
    /\ Start(c)
    /\ StoredReplies(reviewId) + InFlightReplies(reviewId) < MaxReplies
    /\ LET newReply == [userId    |-> session[c],
                        content   |-> ReplyText(c),
                        userEmail |-> EmailOf(session[c]),
                        id        |-> <<reviewId, now>>,
                        createdAt |-> now]
       IN rop' = [rop EXCEPT ![c] =
              Begun(c, "addReply", "send", reviewId, Undefined, newReply)]
    /\ UNCHANGED <<reviewTable, appended, created, session, now,
                 varsCarousel, varsCatalog, varsGrid>>

\* addReply, second half: the UpdateCommand with list_append. The outcome
\* notes whether another addReply for the same key was in flight.
addReplySend(c) ==
    /\ rop[c].op = "addReply"
    /\ rop[c].pc = "send"
    /\ LET reviewId == rop[c].id
           raced    == \E d \in Clients \ {c} :
                          /\ rop[d].op = "addReply"
                          /\ rop[d].pc = "send"
                          /\ rop[d].id = reviewId
       IN /\ reviewTable' = [reviewTable EXCEPT ![reviewId] =
                 AppendReplies(ItemForUpdate(reviewTable, reviewId),
                               rop[c].data)]
          /\ appended' = appended \cup {<<reviewId, rop[c].data>>}
          /\ rop' = [rop EXCEPT ![c] =
                 Finished(c, IF raced THEN "ok-raced" ELSE "ok")]
    /\ UNCHANGED <<created, session, now,
                 varsCarousel, varsCatalog, varsGrid>>

\* getAverageRating: one query, then the derivation.
getAverageRatingCall(c, videoId) ==
    /\ Start(c)
    /\ rop' = [rop EXCEPT ![c] =
           Call(rop[c].n + 1, "getAverageRating", "done", videoId, Undefined,
                getAverageRating(videoId), "ok")]
    /\ UNCHANGED <<reviewTable, appended, created, session, now,
                 varsCarousel, varsCatalog, varsGrid>>

\* Time passes.
Tick ==
    /\ now < MaxClock
    /\ now' = now + 1
    /\ UNCHANGED <<varsReviews, varsCarousel, varsCatalog, varsGrid>>

NextReviews ==
    \/ Tick
    \/ \E c \in Clients, v \in ActiveVideos, in \in ReviewInputs :
          createReview(c, v, in.rating, in.comment)
    \/ \E c \in Clients, rid \in ActiveReviewIds, in \in ReviewInputs :
          updateReviewGet(c, rid, in)
    \/ \E c \in Clients : updateReviewSend(c)
    \/ \E c \in Clients, rid \in ActiveReviewIds : deleteReviewGet(c, rid)
    \/ \E c \in Clients : deleteReviewSend(c)
    \/ \E c \in Clients, rid \in ActiveReviewIds : addReplyBuild(c, rid)
    \/ \E c \in Clients : addReplySend(c)

\* The table is empty and nobody has called yet; the first client is signed
\* in as u1, the second as either user.
Sessions == { s \in [Clients -> Users] : s["c1"] = "u1" }

EmptyReviews ==
    /\ reviewTable = [rid \in ReviewIds |-> NoItem]
    /\ rop = [c \in Clients |-> NoCall]
    /\ appended = {}
    /\ created = {}

InitReviews ==
    /\ EmptyReviews
    /\ session \in Sessions

\* A review as createReview stores it.
StoredReview(u, videoId, in, t) ==
    [userId    |-> u,
     videoId   |-> videoId,
     rating    |-> in.rating,
     comment   |-> in.comment,
     userEmail |-> EmailOf(u),
     id        |-> ReviewId(videoId, t),
     createdAt |-> t,
     updatedAt |-> t,
     replies   |-> <<>>]

\* The tables any run of createReview calls leaves behind.
CreatedTables ==
    { [rid \in ReviewIds |->
          IF made[rid] = <<>> THEN NoItem
          ELSE StoredReview(made[rid][1], rid[1], made[rid][2], rid[2])] :
      made \in [ReviewIds -> {<<>>} \cup (Users \X ReviewInputs)] }

InitRatings ==
    /\ reviewTable \in CreatedTables
    /\ session = [c \in Clients |-> "u1"]
    /\ rop = [c \in Clients |-> NoCall]
    /\ appended = {}
    /\ created = { rid \in ReviewIds : reviewTable[rid] # NoItem }

NextRatings ==
    \E c \in Clients, v \in VideoIds : getAverageRatingCall(c, v)

\* ========================================================================
\* Content repository (S3Service over the bucket) and the grid that lists it
\* ========================================================================

\* What the grid passes as username when getCurrentUser() rejects.
Null == "null"

\* Video ids in the order uuidv4() hands them out.
VideoPool == 1..MaxCalls

\* `videos/${key}` and `thumbnails/${key}`: one object key per upload
VideoKey(id) == <<"videos", id>>

ThumbnailKey(id) == <<"thumbnails", id>>

\* thumbnailKey: '' of a video without a thumbnail
NoKey == <<>>

\* GetObject on a key that holds nothing; readVideoMetadata turns it into null
NoObject == [missing |-> TRUE]

\* What the upload form holds when it is submitted; the category select
\* offers the lower-case names as its values.
Forms ==
    { [title |-> "Intro", description |-> "first", category |-> "gaming",
       duration |-> "1:30", isPublic |-> TRUE],
      [title |-> "Notes", description |-> "", category |-> "music",
       duration |-> "0:45", isPublic |-> FALSE] }

toLowerCase(s) ==
    CASE s = "Gaming" -> "gaming"
      [] s = "Music"  -> "music"
      [] OTHER        -> s

\* A presigned GET URL: it names the key and carries the instant of signing.
getSignedUrl(key) == [key |-> key, signed |-> now]

\* thumbnailUrl: ''
NoUrl == [key |-> NoKey, signed |-> 0]

\* GetObject + JSON.parse; null when nothing is there or the call fails.
readVideoMetadata(videoId, ok) ==
    IF ok THEN sidecars[videoId] ELSE NoObject

\* PutObject of metadata/<id>.json
storeVideoMetadata(metadata) ==
    [sidecars EXCEPT ![metadata.id] = metadata]

\* The metadata handleSubmit hands to uploadVideo.
FormMetadata(id, username, form) ==
    [id          |-> id,
     userId      |-> username,
     title       |-> form.title,
     description |-> form.description,
     category    |-> toLowerCase(form.category),
     duration    |-> form.duration,
     isPublic    |-> form.isPublic,
     uploadDate  |-> now]

\* newVideo of uploadVideo: { ...metadata, videoKey, videoUrl, '', '' }
NewVideo(metadata) ==
    SetAttrs(metadata, [videoKey     |-> VideoKey(metadata.id),
                        videoUrl     |-> getSignedUrl(VideoKey(metadata.id)),
                        thumbnailKey |-> NoKey,
                        thumbnailUrl |-> NoUrl])

\* updatedMetadata of uploadThumbnail, if it did not keep the description
\* that was read
UpdatedMetadataLossy(videoMetadata, videoId) ==
    SetAttrs(videoMetadata,
             [thumbnailKey |-> ThumbnailKey(videoId),
              thumbnailUrl |-> getSignedUrl(ThumbnailKey(videoId)),
              description  |-> ""])

\* updatedMetadata of uploadThumbnail, keeping what was read
UpdatedMetadata(videoMetadata, videoId) ==
    SetAttrs(videoMetadata,
             [thumbnailKey |-> ThumbnailKey(videoId),
              thumbnailUrl |-> getSignedUrl(ThumbnailKey(videoId))])

\* One item of getAllVideos: the stored document with freshly signed URLs.
Hydrated(metadata) ==
    SetAttrs(metadata,
             [videoUrl     |-> getSignedUrl(metadata.videoKey),
              thumbnailUrl |-> IF metadata.thumbnailKey # NoKey
                               THEN getSignedUrl(metadata.thumbnailKey)
                               ELSE NoUrl])

\* response.Contents: the metadata keys, in key order
RECURSIVE ContentsOrder(_)
ContentsOrder(S) ==
    IF S = {} THEN <<>>
    ELSE LET v == CHOOSE x \in S : \A y \in S : x.id <= y.id
         IN  <<v>> \o ContentsOrder(S \ {v})

\* Array.prototype.sort with (a, b) => date(b) - date(a): stable, newest first
RECURSIVE InsertByDate(_, _)
InsertByDate(sorted, v) ==
    IF sorted = <<>> THEN <<v>>
    ELSE IF Head(sorted).uploadDate < v.uploadDate
         THEN <<v>> \o sorted
         ELSE <<Head(sorted)>> \o InsertByDate(Tail(sorted), v)

RECURSIVE SortByUploadDate(_)
SortByUploadDate(list) ==
    IF list = <<>> THEN <<>>
    ELSE InsertByDate(SortByUploadDate(SubSeq(list, 1, Len(list) - 1)),
                      list[Len(list)])

\* the filter, if it showed public videos only
IsVisibleIfPublic(video, username) == video.isPublic

\* video.isPublic || (username && video.userId === username)
IsVisible(video, username) ==
    video.isPublic \/ (username \notin {Null, ""} /\ video.userId = username)

\* username ? sortedVideos.filter(video.userId === username) : []
IsOwn(video, username) ==
    username \notin {Null, ""} /\ video.userId = username

\* The state fetchAndFilterVideos sets from what getAllVideos returned.
\* getAllVideos catches every failure itself and returns [], so the catch of
\* fetchAndFilterVideos (setError) has nothing to catch and error stays null.
Filtered(found, username) ==
    LET sortedVideos == SortByUploadDate(found)
    IN  [allVideos  |-> SelectSeq(sortedVideos,
                                  LAMBDA v : IsVisible(v, username)),
         userVideos |-> SelectSeq(sortedVideos,
                                  LAMBDA v : IsOwn(v, username)),
         loading    |-> FALSE,
         error      |-> Null]

\* the grid before its first fetch has settled
Loading == [allVideos |-> <<>>, userVideos |-> <<>>, loading |-> TRUE,
            error |-> Null]

\* ------------------------------------------------------------------------
\* S3Service calls.  Each request to the bucket is one step and may fail
\* (ok = FALSE); a client runs one call at a time.
\* ------------------------------------------------------------------------

S3Call(n, op, pc, id, doc, thumbnail, pending, got, caller, gone, result) ==
    [n |-> n, op |-> op, pc |-> pc, id |-> id, doc |-> doc,
     thumbnail |-> thumbnail, pending |-> pending, got |-> got,
     caller |-> caller, gone |-> gone, result |-> result]

NoS3Call == S3Call(0, "none", "idle", 0, NoObject, FALSE, {}, {}, Null, {},
                   "none")

S3Idle(c) == sop[c].pc \in {"idle", "done"}

RECURSIVE S3CallsOf(_)
S3CallsOf(S) ==
    IF S = {} THEN 0
    ELSE LET c == CHOOSE x \in S : TRUE
         IN  sop[c].n + S3CallsOf(S \ {c})

S3Start(c) ==
    /\ S3Idle(c)
    /\ S3CallsOf(Clients) < MaxCalls

\* the call of client c moves on to its next request
S3Goes(c, pc, doc) ==
    sop' = [sop EXCEPT ![c].pc = pc, ![c].doc = doc]

\* the call of client c returns
S3Returns(c, result) ==
    sop' = [sop EXCEPT ![c] =
               S3Call(sop[c].n, sop[c].op, "done", 0, NoObject,
                      FALSE, {}, {}, sop[c].caller, sop[c].gone, result)]

\* uploadVideo after its PutObject, if it went on whatever the outcome
AfterVideoPutAnyway(ok) == "store"

\* uploadVideo after its PutObject: a failed send throws into the catch
AfterVideoPut(ok) == IF ok THEN "store" ELSE "done"

\* handleSubmit up to the first request of uploadVideo: PutObject of the video.
\* uploadDate is the instant of submission.
handleSubmit(c, form, thumbnail, ok) ==
    /\ S3Start(c)
    /\ session[c] \in Users
    /\ LET videoId  == issued + 1
           metadata == FormMetadata(videoId, session[c], form)
       IN  /\ issued' = videoId
           /\ blobs' = IF ok THEN blobs \cup {VideoKey(videoId)} ELSE blobs
           /\ sop' = [sop EXCEPT ![c] =
                  IF AfterVideoPut(ok) = "store"
                  THEN S3Call(sop[c].n + 1, "submit", "store", videoId,
                              metadata, thumbnail, {}, {}, session[c], {},
                              "none")
                  ELSE S3Call(sop[c].n + 1, "submit", "done", videoId,
                              NoObject, FALSE, {}, {}, session[c], {},
                              "failed")]
    /\ now' = now + 1
    /\ UNCHANGED <<sidecars, grid, deleted>>
    /\ UNCHANGED <<varsCarousel, varsReviews, varsGrid>>

\* uploadVideo: sign the URL and storeVideoMetadata(newVideo); handleSubmit
\* goes on to uploadThumbnail when a thumbnail was chosen
uploadVideoStore(c, ok) ==
    /\ sop[c].op = "submit" /\ sop[c].pc = "store"
    /\ IF ok
       THEN /\ sidecars' = storeVideoMetadata(NewVideo(sop[c].doc))
            /\ IF sop[c].thumbnail
               THEN S3Goes(c, "thumbPut", NoObject)
               ELSE S3Returns(c, "ok")
       ELSE /\ sidecars' = sidecars
            /\ S3Returns(c, "failed")
    /\ UNCHANGED <<blobs, issued, grid, deleted>>
    /\ UNCHANGED <<now, varsCarousel, varsReviews, varsGrid>>

\* uploadThumbnail: PutObject of the thumbnail
uploadThumbnailPut(c, ok) ==
    /\ sop[c].op = "submit" /\ sop[c].pc = "thumbPut"
    /\ IF ok
       THEN /\ blobs' = blobs \cup {ThumbnailKey(sop[c].id)}
            /\ S3Goes(c, "thumbRead", NoObject)
       ELSE /\ blobs' = blobs
            /\ S3Returns(c, "failed")
    /\ UNCHANGED <<sidecars, issued, grid, deleted>>
    /\ UNCHANGED <<now, varsCarousel, varsReviews, varsGrid>>

\* uploadThumbnail: sign the URL, readVideoMetadata; nothing read -> success
uploadThumbnailRead(c, ok) ==
    /\ sop[c].op = "submit" /\ sop[c].pc = "thumbRead"
    /\ LET videoMetadata == readVideoMetadata(sop[c].id, ok)
       IN  IF videoMetadata # NoObject
           THEN S3Goes(c, "thumbStore",
                       UpdatedMetadata(videoMetadata, sop[c].id))
           ELSE S3Returns(c, "ok")
    /\ UNCHANGED <<blobs, sidecars, issued, grid, deleted>>
    /\ UNCHANGED <<now, varsCarousel, varsReviews, varsGrid>>

\* uploadThumbnail: storeVideoMetadata(updatedMetadata)
uploadThumbnailStore(c, ok) ==
    /\ sop[c].op = "submit" /\ sop[c].pc = "thumbStore"
    /\ IF ok
       THEN /\ sidecars' = storeVideoMetadata(sop[c].doc)
            /\ S3Returns(c, "ok")
       ELSE /\ sidecars' = sidecars
            /\ S3Returns(c, "failed")
    /\ UNCHANGED <<blobs, issued, grid, deleted>>
    /\ UNCHANGED <<now, varsCarousel, varsReviews, varsGrid>>

\* deleteVideo after the video object, if it always went for a thumbnail
AfterVideoDeleteAlways(metadata) == "thumb"

\* deleteVideo after the video object: if (metadata.thumbnailKey)
AfterVideoDelete(metadata) ==
    IF metadata.thumbnailKey # NoKey THEN "thumb" ELSE "meta"

\* deleteVideo after a DeleteObject of a blob, if it went on to the next
\* request whatever the outcome
AfterDeleteObjectAnyway(ok, next) == next

\* deleteVideo after a DeleteObject of a blob: a rejected send throws into
\* the catch, which returns { success: false }; the next request is only
\* sent after a send that resolved
AfterDeleteObject(ok, next) == IF ok THEN next ELSE "done"

\* deleteVideo: readVideoMetadata; nothing read -> 'Video not found'
deleteVideo(c, videoId, ok) ==
    /\ S3Start(c)
    /\ LET metadata == readVideoMetadata(videoId, ok)
       IN  sop' = [sop EXCEPT ![c] =
              S3Call(sop[c].n + 1, "delete",
                     IF metadata = NoObject THEN "done"
                     ELSE IF metadata.videoKey # NoKey THEN "blob"
                     ELSE AfterVideoDelete(metadata),
                     videoId, metadata, FALSE, {}, {}, session[c], {},
                     IF metadata = NoObject THEN "not-found" ELSE "none")]
    /\ UNCHANGED <<blobs, sidecars, issued, grid, deleted>>
    /\ UNCHANGED <<now, varsCarousel, varsReviews, varsGrid>>

\* deleteVideo: DeleteObject of metadata.videoKey
deleteVideoBlob(c, ok) ==
    /\ sop[c].op = "delete" /\ sop[c].pc = "blob"
    /\ LET next == AfterDeleteObject(ok, AfterVideoDelete(sop[c].doc))
       IN  /\ blobs' = IF ok THEN blobs \ {sop[c].doc.videoKey} ELSE blobs
           /\ IF next = "done"
              THEN S3Returns(c, "failed")
              ELSE S3Goes(c, next, sop[c].doc)
    /\ UNCHANGED <<sidecars, issued, grid, deleted>>
    /\ UNCHANGED <<now, varsCarousel, varsReviews, varsGrid>>

\* deleteVideo: DeleteObject of metadata.thumbnailKey
deleteVideoThumbnail(c, ok) ==
    /\ sop[c].op = "delete" /\ sop[c].pc = "thumb"
    /\ LET next == AfterDeleteObject(ok, "meta")
       IN  /\ blobs' = IF ok THEN blobs \ {sop[c].doc.thumbnailKey}
                     ELSE blobs
           /\ IF next = "done"
              THEN S3Returns(c, "failed")
              ELSE S3Goes(c, next, sop[c].doc)
    /\ UNCHANGED <<sidecars, issued, grid, deleted>>
    /\ UNCHANGED <<now, varsCarousel, varsReviews, varsGrid>>

\* deleteVideo: DeleteObject of metadata/<id>.json
deleteVideoMetadata(c, ok) ==
    /\ sop[c].op = "delete" /\ sop[c].pc = "meta"
    /\ IF ok
       THEN /\ sidecars' = [sidecars EXCEPT ![sop[c].id] = NoObject]
            /\ deleted' = deleted \cup {sop[c].id}
            /\ S3Returns(c, "ok")
       ELSE /\ UNCHANGED <<sidecars, deleted>>
            /\ S3Returns(c, "failed")
    /\ UNCHANGED <<blobs, issued, grid>>
    /\ UNCHANGED <<now, varsCarousel, varsReviews, varsGrid>>

\* fetchAndFilterVideos up to the first request of getAllVideos: ListObjectsV2.
\* A failed or empty listing settles at once with [].
fetchAndFilterVideos(c, ok) ==
    /\ S3Start(c)
    /\ LET username == session[c]
           keys     == { id \in VideoPool : sidecars[id] # NoObject }
       IN  IF ok /\ keys # {}
           THEN /\ sop' = [sop EXCEPT ![c] =
                       S3Call(sop[c].n + 1, "list", "hydrate", 0, NoObject,
                              FALSE, keys, {}, username, deleted, "none")]
                /\ grid' = grid
           ELSE /\ sop' = [sop EXCEPT ![c] =
                       S3Call(sop[c].n + 1, "list", "done", 0, NoObject,
                              FALSE, {}, {}, username, deleted,
                              IF ok THEN "listed" ELSE "swallowed")]
                /\ grid' = [grid EXCEPT ![c] = Filtered(<<>>, username)]
    /\ UNCHANGED <<blobs, sidecars, issued, deleted>>
    /\ UNCHANGED <<now, varsCarousel, varsReviews, varsGrid>>

\* getAllVideos: one callback of the map over response.Contents.  A document
\* that cannot be read is left out (the listing is then "partial"); a URL
\* that cannot be signed rejects the Promise.all, and the catch returns [].
\* The last callback to settle lets fetchAndFilterVideos sort, filter and set
\* the grid's lists.
hydrate(c, videoId, readOk, signOk) ==
    /\ sop[c].op = "list" /\ sop[c].pc = "hydrate"
    /\ videoId \in sop[c].pending
    /\ LET metadata == readVideoMetadata(videoId, readOk)
           pending  == sop[c].pending \ {videoId}
           got      == IF metadata = NoObject THEN sop[c].got
                       ELSE sop[c].got \cup {Hydrated(metadata)}
           skipped  == metadata = NoObject \/ sop[c].result = "skipped"
       IN  IF metadata # NoObject /\ ~signOk
           THEN /\ grid' = [grid EXCEPT ![c] = Filtered(<<>>, sop[c].caller)]
                /\ S3Returns(c, "swallowed")
           ELSE IF pending = {}
           THEN /\ grid' = [grid EXCEPT ![c] =
                               Filtered(ContentsOrder(got), sop[c].caller)]
                /\ S3Returns(c, IF skipped THEN "partial" ELSE "listed")
           ELSE /\ grid' = grid
                /\ sop' = [sop EXCEPT ![c].pending = pending, ![c].got = got,
                                      ![c].result = IF skipped THEN "skipped"
                                                    ELSE "none"]
    /\ UNCHANGED <<blobs, sidecars, issued, deleted>>
    /\ UNCHANGED <<now, varsCarousel, varsReviews, varsGrid>>

\* The DeleteVideo button of the overlay is offered when this holds
\* (currentUserId === video.userId); deleteVideo itself is exported with the
\* service and takes any id.
DeleteOffered(c, video) == session[c] = video.userId

\* Uploads are made on the first client; the second is another device, which
\* lists and deletes.  The clock is read by handleSubmit, and each submission
\* falls on a later instant than the one before.
Uploaders == {"c1"}

NextCatalog ==
    \/ \E c \in Uploaders, form \in Forms, thumbnail \in BOOLEAN,
          ok \in BOOLEAN : handleSubmit(c, form, thumbnail, ok)
    \/ \E c \in Clients, ok \in BOOLEAN : uploadVideoStore(c, ok)
    \/ \E c \in Clients, ok \in BOOLEAN : uploadThumbnailPut(c, ok)
    \/ \E c \in Clients, ok \in BOOLEAN : uploadThumbnailRead(c, ok)
    \/ \E c \in Clients, ok \in BOOLEAN : uploadThumbnailStore(c, ok)
    \/ \E c \in Clients, id \in VideoPool, ok \in BOOLEAN :
          deleteVideo(c, id, ok)
    \/ \E c \in Clients, ok \in BOOLEAN : deleteVideoBlob(c, ok)
    \/ \E c \in Clients, ok \in BOOLEAN : deleteVideoThumbnail(c, ok)
    \/ \E c \in Clients, ok \in BOOLEAN : deleteVideoMetadata(c, ok)
    \/ \E c \in Clients, ok \in BOOLEAN : fetchAndFilterVideos(c, ok)
    \/ \E c \in Clients, id \in VideoPool, readOk \in BOOLEAN,
          signOk \in BOOLEAN : hydrate(c, id, readOk, signOk)

\* An empty bucket; no grid has fetched yet.
InitCatalog ==
    /\ blobs = {}
    /\ sidecars = [id \in VideoPool |-> NoObject]
    /\ issued = 0
    /\ sop = [c \in Clients |-> NoS3Call]
    /\ grid = [c \in Clients |-> Loading]
    /\ deleted = {}

\* The first client is signed in as u1; the second as either user, or not
\* at all.
Visitors == { s \in [Clients -> Users \cup {Null}] : s["c1"] = "u1" }

\* ========================================================================
\* One grid and its fetches (VideoCarousel: checkCurrentUser, Hub listeners)
\* ========================================================================

\* getAllVideos with every request succeeding: each stored document, with
\* freshly signed URLs, in key order.
getAllVideos ==
    ContentsOrder({ Hydrated(sidecars[id]) :
                    id \in { v \in VideoPool : sidecars[v] # NoObject } })

\* fetchAndFilterVideos(username) is called: its getAllVideos is awaited.
StartFetch(username) ==
    /\ started < MaxFetches
    /\ started' = started + 1
    /\ fetches' = fetches \cup {[n |-> started + 1, username |-> username]}

\* Hub 'auth' signedIn -> checkCurrentUser: getCurrentUser resolves with the
\* user, setCurrentUser(username), fetchAndFilterVideos(username).
signedIn(u) ==
    /\ auth = Null
    /\ auth' = u
    /\ currentUser' = u
    /\ StartFetch(u)
    /\ UNCHANGED shown
    /\ UNCHANGED <<now, varsCarousel, varsReviews, varsCatalog>>

\* Hub 'auth' signedOut: setCurrentUser(null); fetchAndFilterVideos(null).
signedOut ==
    /\ auth # Null
    /\ auth' = Null
    /\ currentUser' = Null
    /\ StartFetch(Null)
    /\ UNCHANGED shown
    /\ UNCHANGED <<now, varsCarousel, varsReviews, varsCatalog>>

\* Hub 'videos' videoUploaded -> checkCurrentUser.
videoUploaded ==
    /\ auth # Null
    /\ currentUser' = auth
    /\ StartFetch(auth)
    /\ UNCHANGED <<auth, shown>>
    /\ UNCHANGED <<now, varsCarousel, varsReviews, varsCatalog>>

\* The getAllVideos of one fetch in flight resolves: the fetch sorts, filters
\* for the username it was called with, and sets the grid's state.
settleFetch(f) ==
    /\ f \in fetches
    /\ shown' = Filtered(getAllVideos, f.username)
    /\ fetches' = fetches \ {f}
    /\ UNCHANGED <<auth, currentUser, started>>
    /\ UNCHANGED <<now, varsCarousel, varsReviews, varsCatalog>>

FetchRecords == [n : 1..MaxFetches, username : Users \cup {Null}]

NextGrid ==
    \/ \E u \in Users : signedIn(u)
    \/ signedOut
    \/ videoUploaded
    \/ \E f \in FetchRecords : settleFetch(f)

\* no grid is mounted
NoGrid ==
    /\ auth = Null
    /\ currentUser = Null
    /\ fetches = {}
    /\ started = 0
    /\ shown = Loading

\* The grid has just mounted: its effect has run checkCurrentUser, whose
\* fetch is in flight.
MountGrid ==
    /\ auth \in Users \cup {Null}
    /\ currentUser = auth
    /\ fetches = {[n |-> 1, username |-> auth]}
    /\ started = 1
    /\ shown = Loading

\* The bucket after three uploads: a private video of u1, a public and a
\* private video of u2.
StoredVideo(id, username, isPublic) ==
    NewVideo(FormMetadata(id, username,
        CHOOSE form \in Forms : form.isPublic = isPublic))

FilledCatalog ==
    /\ sidecars = [id \in VideoPool |->
                      IF id = 1 THEN StoredVideo(1, "u1", FALSE)
                      ELSE IF id = 2 THEN StoredVideo(2, "u2", TRUE)
                      ELSE IF id = 3 THEN StoredVideo(3, "u2", FALSE)
                      ELSE NoObject]
    /\ blobs = { VideoKey(id) : id \in VideoPool \cap 1..3 }
    /\ issued = Cardinality(VideoPool \cap 1..3)
    /\ sop = [c \in Clients |-> NoS3Call]
    /\ grid = [c \in Clients |-> Loading]
    /\ deleted = {}

\* ========================================================================
\* Specifications
\* ========================================================================

\* no carousel on screen
NoCarousel ==
    /\ videos = <<>>
    /\ currentIndex = 0
    /\ itemsPerPage = InitialItemsPerPage
    /\ event = [name |-> "mount", arg |-> 0]
    /\ advances = 0

\* nobody uses the review store
NoReviews ==
    /\ EmptyReviews
    /\ session = [c \in Clients |-> "u1"]

InitCarousel ==
    /\ MountCarousel
    /\ now = 1
    /\ NoReviews
    /\ InitCatalog
    /\ NoGrid

SpecCarousel == InitCarousel /\ [][NextCarousel]_vars

InitAdvance ==
    /\ InitAdvanceRun
    /\ now = 1
    /\ NoReviews
    /\ InitCatalog
    /\ NoGrid

NextAdvance == Advance

SpecAdvance == InitAdvance /\ [][NextAdvance]_vars

\* Navigation runs: list and page size held fixed, the three navigation
\* handlers in any order.
InitNavigate ==
    /\ InitAdvanceRun
    /\ now = 1
    /\ NoReviews
    /\ InitCatalog
    /\ NoGrid

NextNavigate ==
    \/ nextSlide
    \/ prevSlide
    \/ \E p \in 0..MaxVideos : goToPage(p)

SpecNavigate == InitNavigate /\ [][NextNavigate]_vars

InitReviewStore ==
    /\ InitReviews
    /\ now = 1
    /\ NoCarousel
    /\ InitCatalog
    /\ NoGrid

SpecReviews == InitReviewStore /\ [][NextReviews]_vars

InitRatingStore ==
    /\ InitRatings
    /\ now = MaxClock
    /\ NoCarousel
    /\ InitCatalog
    /\ NoGrid

SpecRatings == InitRatingStore /\ [][NextRatings]_vars

InitCatalogStore ==
    /\ InitCatalog
    /\ session \in Visitors
    /\ EmptyReviews
    /\ now = 1
    /\ NoCarousel
    /\ NoGrid

SpecCatalog == InitCatalogStore /\ [][NextCatalog]_vars

InitGrid ==
    /\ now = 1
    /\ MountGrid
    /\ FilledCatalog
    /\ session = [c \in Clients |-> "u1"]
    /\ EmptyReviews
    /\ NoCarousel

SpecGrid == InitGrid /\ [][NextGrid]_vars

\* ========================================================================
\* Claims about the content repository
\* ========================================================================

\* the videos of a list, as a set
Listed(list) == { list[i] : i \in 1..Len(list) }

\* client c has a settled fetch, and its grid shows what that fetch set
Fetched(c) == sop[c].op = "list" /\ sop[c].pc = "done"

\* C1: whatever a settled catalog listing shows its caller is public or owned
\* by that caller, and none of it is an item whose metadata sidecar had been
\* deleted before the listing started.
C1_ListingVisibleAndLive ==
    \A c \in Clients :
        Fetched(c) =>
            \A v \in Listed(grid[c].allVideos) :
                /\ v.isPublic \/ v.userId = sop[c].caller
                /\ v.id \notin sop[c].gone

\* The filter of fetchAndFilterVideos is exact on what getAllVideos hands it:
\* when a listing settles, everything shown is public or the caller's, and
\* every item hydrated before that is shown if it is public or the caller's.
ListingFilterExact ==
    [][\A c \in Clients :
          (sop[c].op = "list" /\ sop[c].pc = "hydrate" /\ sop'[c].pc = "done"
             /\ sop'[c].result \in {"listed", "partial"}) =>
              /\ \A v \in Listed(grid'[c].allVideos) :
                     v.isPublic \/ v.userId = sop[c].caller
              /\ \A v \in sop[c].got :
                     (v.isPublic \/ v.userId = sop[c].caller)
                        => v \in Listed(grid'[c].allVideos)]_vars

\* C2: a deleteVideo called by a client whose identity differs from the
\* userId stored with the video returns Unauthorized, and no step of it
\* changes the video object, the thumbnail object or the metadata document.
C2_DeleteOnlyByOwner ==
    [][\A c \in Clients :
          (/\ sop'[c] # sop[c]
           /\ sop'[c].op = "delete"
           /\ sop'[c].doc # NoObject
           /\ sop'[c].doc.userId # sop'[c].caller) =>
              /\ sop'[c].result = "unauthorized"
              /\ blobs' = blobs
              /\ sidecars' = sidecars]_vars

\* C11: when a listing settles, every item it had hydrated is shown to the
\* caller it is visible to, whatever happened to the hydration of the other
\* items: one item's failure leaves only that item out.
C11_OneFailureOmitsOneItem ==
    [][\A c \in Clients :
          (sop[c].op = "list" /\ sop[c].pc = "hydrate" /\ sop'[c].pc = "done")
             => \A v \in sop[c].got :
                   (v.isPublic \/ v.userId = sop[c].caller)
                      => v \in Listed(grid'[c].allVideos)]_vars

\* C12: an uploadThumbnail whose re-read finds no metadata sidecar for its
\* video returns a not-found error, writes no sidecar, and leaves the
\* thumbnail object it has put in the bucket.
C12_ThumbnailNotFound ==
    [][\A c \in Clients :
          (/\ sop[c].op = "submit" /\ sop[c].pc = "thumbRead"
           /\ sop'[c] # sop[c]
           /\ sidecars[sop[c].id] = NoObject) =>
              /\ sop'[c].pc = "done"
              /\ sop'[c].result = "not-found"
              /\ sidecars' = sidecars
              /\ ThumbnailKey(sop[c].id) \in blobs']_vars

\* C13: uploadVideo writes the metadata sidecar only after its video object
\* is in the bucket.  When the PutObject of the video fails, the call is over
\* with a failure and writes no sidecar; when the sidecar write fails, the
\* call is over with a failure and the video object stays where it is.
C13_MetadataAfterBlob ==
    [][\A c \in Clients :
          /\ (/\ sop'[c].n = sop[c].n + 1
              /\ sop'[c].op = "submit"
              /\ VideoKey(sop'[c].id) \notin blobs') =>
                 /\ sop'[c].pc = "done"
                 /\ sop'[c].result = "failed"
                 /\ sidecars' = sidecars
          /\ (sop'[c].op = "submit" /\ sop'[c].pc = "store") =>
                 /\ VideoKey(sop'[c].id) \in blobs'
                 /\ sidecars'[sop'[c].id] = NoObject
          /\ (/\ sop[c].op = "submit" /\ sop[c].pc = "store"
              /\ sop'[c] # sop[c]
              /\ sidecars'[sop[c].id] = NoObject) =>
                 /\ sop'[c].pc = "done"
                 /\ sop'[c].result = "failed"
                 /\ blobs' = blobs
                 /\ VideoKey(sop[c].id) \in blobs'
          /\ \A id \in VideoPool :
                 (/\ sidecars[id] = NoObject
                  /\ sidecars'[id] # NoObject
                  /\ id \notin deleted) => VideoKey(id) \in blobs]_vars

\* C13 witness: the video object of an upload is in the bucket, the write of
\* its sidecar has failed, and the upload is over.
C13_BlobWithoutMetadata ==
    \E id \in VideoPool :
        /\ VideoKey(id) \in blobs
        /\ sidecars[id] = NoObject
        /\ id \notin deleted
        /\ \E c \in Clients :
              /\ sop[c].op = "submit"
              /\ sop[c].pc = "done"
              /\ sop[c].result = "failed"

\* C13 witness: the PutObject of the video has failed and the upload is over
\* with nothing stored.
C13_NothingStored ==
    /\ issued = 1
    /\ blobs = {}
    /\ sidecars[1] = NoObject
    /\ \E c \in Clients :
          /\ sop[c].op = "submit"
          /\ sop[c].pc = "done"
          /\ sop[c].result = "failed"

\* The first client, the owner, has listed the bucket after its one upload
\* into the empty bucket had stored the sidecar, and every request of the
\* listing succeeded.
ListedAfterUpload ==
    /\ Fetched("c1")
    /\ sop["c1"].result = "listed"
    /\ sop["c1"].caller = "u1"
    /\ issued = 1
    /\ sidecars[1] # NoObject

\* the listed item carries what was typed into the form
MatchesForm(video) ==
    \E form \in Forms :
        /\ video.title = form.title
        /\ video.description = form.description
        /\ video.category = form.category

C14_ListedWithoutThumbnail ==
    /\ ListedAfterUpload
    /\ Len(grid["c1"].allVideos) = 1
    /\ grid["c1"].allVideos[1].thumbnailUrl = NoUrl

\* client c is running a deleteVideo that read a sidecar without a thumbnail
DeletesBare(c) ==
    /\ sop[c].op = "delete"
    /\ sop[c].pc \in {"blob", "thumb", "meta"}
    /\ sop[c].doc.thumbnailKey = NoKey

\* C15: a deleteVideo of a video whose sidecar carries the empty thumbnail key
\* issues a delete for the video key and then for the sidecar, never one for
\* a thumbnail key; it fails only where one of those two requests fails, and
\* otherwise returns success with the sidecar gone.
C15_DeleteWithoutThumbnail ==
    [][\A c \in Clients :
          /\ DeletesBare(c)' => sop'[c].pc # "thumb"
          /\ (DeletesBare(c) /\ sop'[c] # sop[c]) =>
                /\ sop[c].pc = "blob" =>
                      /\ sop'[c].pc \in {"meta", "done"}
                      /\ sop'[c].pc = "meta" =>
                            /\ blobs' = blobs \ {sop[c].doc.videoKey}
                            /\ sop[c].doc.videoKey \notin blobs'
                      /\ sidecars' = sidecars
                /\ sop[c].pc = "meta" =>
                      /\ sop'[c].pc = "done"
                      /\ blobs' = blobs
                      /\ sop'[c].result = "ok" =>
                            sidecars' = [sidecars EXCEPT ![sop[c].id] = NoObject]
                /\ sop'[c].pc = "done" =>
                      /\ sop'[c].result \in {"ok", "failed"}
                      /\ sop'[c].result = "failed" =>
                            (blobs' = blobs /\ sidecars' = sidecars)]_vars

\* C15 witness: a deleteVideo of a video without thumbnail has removed the
\* video object and is about to remove the sidecar.
C15_BareVideoDeleted ==
    \E c \in Clients :
        /\ DeletesBare(c)
        /\ sop[c].pc = "meta"
        /\ sop[c].doc.videoKey \notin blobs
        /\ sidecars[sop[c].id] # NoObject

\* C19: when the ListObjectsV2 request of a listing fails, the grid ends
\* the fetch with its error state set, not with an empty listing that looks
\* successful.
C19_ListFailureReachesErrorState ==
    [][\A c \in Clients :
          (/\ sop'[c].n = sop[c].n + 1
           /\ sop'[c].op = "list"
           /\ sop'[c].result = "swallowed")
          => grid'[c].error # Null]_vars

\* A step of client c's deleteVideo call.
DeleteStepOf(c) == sop[c].op = "delete" /\ sop[c].pc # "done" /\ sop' # sop

\* C20: deleteVideo deletes the video blob first, then the thumbnail blob if
\* the metadata names one, then the metadata document.  The document is only
\* removed by the last request of a call whose blob deletes went through,
\* the thumbnail only after the video blob is gone; a call that fails
\* reports failure and its failing step removes nothing, so what the earlier
\* steps deleted stays deleted and what the later steps would delete remains.
C20_DeleteOrder ==
    [][/\ \A id \in VideoPool :
            (sidecars[id] # NoObject /\ sidecars'[id] = NoObject) =>
                \E c \in Clients :
                    /\ DeleteStepOf(c)
                    /\ sop[c].id = id
                    /\ sop[c].pc = "meta"
                    /\ sop[c].doc.videoKey \notin blobs
                    /\ sop[c].doc.thumbnailKey \notin blobs
                    /\ blobs' = blobs
                    /\ sop'[c].result = "ok"
       /\ \A id \in VideoPool :
            (ThumbnailKey(id) \in blobs /\ ThumbnailKey(id) \notin blobs') =>
                /\ VideoKey(id) \notin blobs
                /\ sidecars' = sidecars
       /\ \A id \in VideoPool :
            (VideoKey(id) \in blobs /\ VideoKey(id) \notin blobs') =>
                /\ blobs' = blobs \ {VideoKey(id)}
                /\ sidecars' = sidecars
       /\ \A c \in Clients :
            (DeleteStepOf(c) /\ sop'[c].result = "failed") =>
                /\ blobs' = blobs
                /\ sidecars' = sidecars
                /\ sop'[c].pc = "done"]_vars

\* C20 witness: a deleteVideo call of a video with a thumbnail has failed at
\* the thumbnail: the video blob is gone, the thumbnail blob and the
\* metadata document are still stored.
C20_FailedAtThumbnail ==
    \E c \in Clients, id \in VideoPool :
        /\ sop[c].op = "delete"
        /\ sop[c].result = "failed"
        /\ sidecars[id] # NoObject
        /\ sidecars[id].thumbnailKey = ThumbnailKey(id)
        /\ VideoKey(id) \notin blobs
        /\ ThumbnailKey(id) \in blobs

\* C24: signed URLs are derived from the stored key when a listing reads an
\* item and are not persisted: the URLs of every listed item are signed for
\* that item's own keys, and no stored metadata document holds a signed URL.
C24_SignedUrlsNotPersisted ==
    /\ \A c \in Clients :
          \A v \in Listed(grid[c].allVideos) \cup Listed(grid[c].userVideos) :
              /\ v.videoUrl.key = v.videoKey
              /\ v.thumbnailUrl.key = v.thumbnailKey
    /\ \A id \in VideoPool :
          sidecars[id] # NoObject =>
              /\ sidecars[id].videoUrl = NoUrl
              /\ sidecars[id].thumbnailUrl = NoUrl

\* C25: uploadThumbnail merges into the metadata it reads after its
\* thumbnail object is stored: the document it goes on to write is the one
\* just read with only thumbnailKey and thumbnailUrl replaced, and its write
\* stores exactly that document and touches no other.
C25_ThumbnailMergesFreshRead ==
    [][\A c \in Clients :
          /\ (/\ sop[c].op = "submit"
              /\ sop[c].pc = "thumbRead"
              /\ sop'[c].pc = "thumbStore") =>
                 LET read == sidecars[sop[c].id]
                     doc  == sop'[c].doc
                 IN  /\ ThumbnailKey(sop[c].id) \in blobs
                     /\ read # NoObject
                     /\ DOMAIN doc = DOMAIN read
                     /\ \A f \in DOMAIN read \ {"thumbnailKey", "thumbnailUrl"} :
                            doc[f] = read[f]
                     /\ doc.thumbnailKey = ThumbnailKey(sop[c].id)
                     /\ doc.thumbnailUrl.key = ThumbnailKey(sop[c].id)
          /\ (/\ sop[c].op = "submit"
              /\ sop[c].pc = "thumbStore"
              /\ sop'[c].result = "ok") =>
                 sidecars' = [sidecars EXCEPT ![sop[c].id] = sop[c].doc]]_vars

\* C25 witness: an upload with a thumbnail has completed, and the stored
\* document names the thumbnail and still carries the description typed
\* into the form.
C25_ThumbnailAttached ==
    \E c \in Clients, id \in VideoPool :
        /\ sop[c].op = "submit"
        /\ sop[c].result = "ok"
        /\ sidecars[id] # NoObject
        /\ sidecars[id].thumbnailKey = ThumbnailKey(id)
        /\ sidecars[id].description # ""

\* C26: once a deleteVideo has removed the metadata document of a video and
\* returned success, no metadata document is stored under that id again,
\* whatever a concurrent uploadThumbnail for the id does.
C26_DeletedStaysDeleted ==
    \A id \in deleted : sidecars[id] = NoObject

\* ========================================================================
\* Claims about the review store
\* ========================================================================

Replies(item) == IF "replies" \in DOMAIN item THEN item.replies ELSE <<>>

Holds(item, reply) ==
    \E i \in 1..Len(Replies(item)) : Replies(item)[i] = reply

\* C3: addReply calls that run concurrently on the same existing review all
\* leave their reply in the stored review: every reply appended to a stored
\* item is held by that item for as long as the item is stored.
C3_NoReplyLost ==
    \A p \in appended :
        /\ reviewTable[p[1]] # NoItem
        /\ Holds(reviewTable[p[1]], p[2])

\* C3 witness: two clients' addReply calls on a review made by createReview
\* were in flight together, both have completed, and the review holds the
\* replies of both.
C3_BothRepliesStored ==
    \E rid \in ReviewIds :
        /\ reviewTable[rid] # NoItem
        /\ "userId" \in DOMAIN reviewTable[rid]
        /\ \A c \in Clients :
              /\ rop[c].op = "addReply"
              /\ rop[c].pc = "done"
              /\ rop[c].id = rid
              /\ \E i \in 1..Len(Replies(reviewTable[rid])) :
                    Replies(reviewTable[rid])[i].content = ReplyText(c)
        /\ \E c \in Clients : rop[c].result = "ok-raced"

\* The client whose call this step starts.
Starts(c, op) == rop'[c].n = rop[c].n + 1 /\ rop'[c].op = op

\* C4: updateReview fails with NotFound when there is no record under the
\* id, and with Unauthorized when the caller is not the stored author; in
\* both cases the table is left as it was.
C4_UpdateRejected ==
    [][ \A c \in Clients :
          Starts(c, "updateReview") =>
              LET review == reviewTable[rop'[c].id]
              IN /\ review = NoItem =>
                        /\ rop'[c].pc = "done"
                        /\ rop'[c].result = "NotFound"
                        /\ reviewTable' = reviewTable
                 /\ (review # NoItem
                        /\ Attr(review, "userId") # session[c]) =>
                        /\ rop'[c].pc = "done"
                        /\ rop'[c].result = "Unauthorized"
                        /\ reviewTable' = reviewTable ]_vars

\* C4 witness: a review was deleted by its author and an updateReview
\* called afterwards has failed with NotFound.
C4_UpdateAfterDelete ==
    \E c, d \in Clients :
        /\ rop[c].op = "updateReview"
        /\ rop[c].result = "NotFound"
        /\ rop[d].op = "deleteReview"
        /\ rop[d].result = "ok"
        /\ rop[d].id = rop[c].id

\* An updateReview by somebody else than the author has been refused.
C4_UpdateByStranger ==
    \E c \in Clients :
        /\ rop[c].op = "updateReview"
        /\ rop[c].result = "Unauthorized"
        /\ reviewTable[rop[c].id] # NoItem

\* C5: a record leaves the table only through a deleteReview whose own read
\* found the caller as the author; deleteReview by anybody else fails with
\* Unauthorized, deleteReview of a missing id fails with NotFound, and both
\* leave the table as it was.
C5_DeleteOnlyByAuthor ==
    [][ /\ \A rid \in ReviewIds :
              (reviewTable[rid] # NoItem /\ reviewTable'[rid] = NoItem) =>
                  \E c \in Clients :
                      /\ rop[c].op = "deleteReview"
                      /\ rop[c].pc = "delete"
                      /\ rop[c].id = rid
                      /\ rop[c].author = session[c]
                      /\ rop'[c].pc = "done"
        /\ \A c \in Clients :
              Starts(c, "deleteReview") =>
                  LET review == reviewTable[rop'[c].id]
                  IN /\ review = NoItem =>
                            /\ rop'[c].pc = "done"
                            /\ rop'[c].result = "NotFound"
                            /\ reviewTable' = reviewTable
                     /\ (review # NoItem
                            /\ Attr(review, "userId") # session[c]) =>
                            /\ rop'[c].pc = "done"
                            /\ rop'[c].result = "Unauthorized"
                            /\ reviewTable' = reviewTable
                     /\ (review # NoItem
                            /\ Attr(review, "userId") = session[c]) =>
                            /\ rop'[c].pc = "delete"
                            /\ rop'[c].author = session[c] ]_vars

\* C5 witness: the author has deleted a review, and another user's
\* deleteReview has been refused.
C5_DeletedByAuthor ==
    \E c, d \in Clients :
        /\ rop[c].op = "deleteReview"
        /\ rop[c].result = "ok"
        /\ reviewTable[rop[c].id] = NoItem
        /\ rop[d].op = "deleteReview"
        /\ rop[d].result = "Unauthorized"

\* The ratings of a set of stored reviews, added up.
RECURSIVE RatingSum(_)
RatingSum(S) ==
    IF S = {} THEN 0
    ELSE LET rid == CHOOSE x \in S : TRUE
         IN reviewTable[rid].rating + RatingSum(S \ {rid})

ReviewsOf(videoId) ==
    { rid \in ReviewIds :
        /\ reviewTable[rid] # NoItem
        /\ Attr(reviewTable[rid], "videoId") = videoId }

\* C10: getAverageRating returns as count the number of stored reviews of
\* the video and as average the exact quotient of the sum of their ratings
\* by the count (0 when there is none); the review panel's average over the
\* same list is the same number.
C10_AverageExact ==
    \A c \in Clients :
        rop[c].op = "getAverageRating" =>
            LET got    == rop[c].data
                stored == ReviewsOf(rop[c].id)
            IN /\ got.count = Cardinality(stored)
               /\ got.count = 0 => got.average.num = 0
               /\ got.average.den > 0
               /\ got.average.num * got.count
                      = RatingSum(stored) * got.average.den
               /\ averageRating(getVideoReviews(rop[c].id)) = got.average

\* C10 witness: an average that is not a whole number has been returned,
\* for a video that is not the only one with reviews.
C10_FractionalAverage ==
    \E c \in Clients :
        /\ rop[c].op = "getAverageRating"
        /\ rop[c].data.count = 2
        /\ rop[c].data.average = [num |-> 9, den |-> 2]
        /\ \E v \in VideoIds \ {rop[c].id} : ReviewsOf(v) # {}

\* C10 witness of the empty case: no review, average 0, count 0.
C10_NoReviews ==
    \E c \in Clients :
        /\ rop[c].op = "getAverageRating"
        /\ rop[c].data = [average |-> Zero, count |-> 0]


\* C16: every stored record of a review that createReview has made (the
\* reviews the panel lists and lets its users edit, delete and reply to) has
\* an integer rating in 1..5 and a replies attribute that is a sequence,
\* possibly empty, never absent.
C16_StoredReviewsWellFormed ==
    \A rid \in created :
        reviewTable[rid] # NoItem =>
            /\ "rating" \in DOMAIN reviewTable[rid]
            /\ reviewTable[rid].rating \in 1..5
            /\ "replies" \in DOMAIN reviewTable[rid]
            /\ Len(reviewTable[rid].replies) \in Nat

\* C17: a createReview call for a video gets an id that no earlier
\* createReview call has produced, and that orders after the id of every
\* review created earlier for the same video; so it never stores over a
\* review created before it.
C17_ReviewIdsUniqueAndOrdered ==
    [][\A c \in Clients :
          Starts(c, "createReview") =>
              \A rid \in created :
                  rid[1] = rop'[c].id[1] => rid[2] < rop'[c].id[2]]_vars

\* The user who uploaded the video under review: u1, the user of the
\* uploading client.
UploaderOf(videoId) == "u1"

\* C18: only the uploader of a video adds replies to its reviews: every
\* reply held by a stored review of a video was submitted by the video's
\* uploader. (Stated for the reviews createReview has made.)
C18_RepliesOnlyByUploader ==
    \A rid \in created :
        \A i \in 1..Len(Replies(reviewTable[rid])) :
            Replies(reviewTable[rid])[i].userId = UploaderOf(rid[1])

\* s is an initial part of t.
IsPrefix(s, t) == Len(s) <= Len(t) /\ SubSeq(t, 1, Len(s)) = s

\* C23: replies are append-only and kept in insertion order: whatever a
\* step does to a review that is stored before and after it, every reply
\* the review held is still held, unchanged and at the same position, and
\* a new reply comes after them.  (Stated for the reviews createReview has
\* made.)
C23_RepliesAppendOnly ==
    [][\A rid \in created :
          (reviewTable[rid] # NoItem /\ reviewTable'[rid] # NoItem) =>
              IsPrefix(Replies(reviewTable[rid]), Replies(reviewTable'[rid]))]_vars

\* C27: a review that a deleteReview has removed stays removed under a
\* concurrent updateReview of its author: the write of an updateReview whose
\* read found the review, arriving when no record is stored under the id any
\* more, stores nothing; and whatever an updateReview leaves under the id
\* carries the author id and the video id.
C27_NoRecordAfterDelete ==
    [][\A c \in Clients :
          (/\ rop[c].op = "updateReview"
           /\ rop[c].pc = "update"
           /\ rop'[c].pc = "done") =>
              /\ reviewTable[rop[c].id] = NoItem =>
                     reviewTable'[rop[c].id] = NoItem
              /\ reviewTable'[rop[c].id] # NoItem =>
                     {"userId", "videoId"} \subseteq
                         DOMAIN reviewTable'[rop[c].id]]_vars

\* C28: addReply on an id under which no record is stored (never created,
\* or deleted) fails and leaves the table as it was, so that every stored
\* record carries what createReview gives a review.
C28_ReplyToMissingReviewFails ==
    [][\A c \in Clients :
          (/\ rop[c].op = "addReply"
           /\ rop[c].pc = "send"
           /\ rop'[c].pc = "done"
           /\ reviewTable[rop[c].id] = NoItem) =>
              /\ reviewTable' = reviewTable
              /\ rop'[c].result \notin {"ok", "ok-raced"}]_vars

\* The attributes an updateReview is to leave alone.
KeptAttrs == {"videoId", "userId", "userEmail", "createdAt", "replies"}

\* C30: the write of a successful updateReview changes only comment, rating
\* and updatedAt of the record under its id: the id, video id, author id,
\* author email, createdAt and replies are what they were, no other
\* attribute appears, and no other record changes.
C30_UpdateFrame ==
    [][\A c \in Clients :
          (/\ rop[c].op = "updateReview"
           /\ rop[c].pc = "update"
           /\ rop'[c].pc = "done") =>
              LET rid == rop[c].id
                  old == reviewTable[rid]
                  new == reviewTable'[rid]
              IN  /\ rop'[c].result = "ok"
                  /\ new # NoItem
                  /\ "id" \in DOMAIN new
                  /\ new.id = rid
                  /\ \A f \in KeptAttrs : Attr(new, f) = Attr(old, f)
                  /\ DOMAIN new \subseteq
                         KeptAttrs \cup {"id", "comment", "rating", "updatedAt"}
                  /\ Attr(new, "comment") = rop[c].data.comment
                  /\ Attr(new, "rating") = rop[c].data.rating
                  /\ \A other \in ReviewIds \ {rid} :
                         reviewTable'[other] = reviewTable[other]]_vars

\* C30 witness: an updateReview has completed on a stored review of its
\* caller that holds a reply, at a later instant than the review was made.
C30_UpdatedReviewWithReply ==
    \E c \in Clients :
        /\ rop[c].op = "updateReview"
        /\ rop[c].pc = "done"
        /\ rop[c].result = "ok"
        /\ reviewTable[rop[c].id] # NoItem
        /\ Attr(reviewTable[rop[c].id], "userId") = session[c]
        /\ Len(Replies(reviewTable[rop[c].id])) >= 1
        /\ reviewTable[rop[c].id].updatedAt > reviewTable[rop[c].id].createdAt

\* ========================================================================
\* Claims about the carousel
\* ========================================================================

\* The window the spec describes: the slice from currentIndex to
\* currentIndex + itemsPerPage, clamped to the list.
ClampedWindow ==
    SubSeq(videos, currentIndex + 1,
           Min(currentIndex + itemsPerPage, Len(videos)))

\* C6: in every reachable state of the carousel the visible window is the
\* slice [currentIndex, currentIndex + itemsPerPage) clamped to the list,
\* 0 <= currentIndex < length, and the window is not empty whenever the list
\* is not empty.
C6_WindowInvariant ==
    /\ Len(videos) = 0 => getVisibleVideos = <<>>
    /\ Len(videos) > 0 =>
          /\ 0 <= currentIndex
          /\ currentIndex < Len(videos)
          /\ getVisibleVideos = ClampedWindow
          /\ getVisibleVideos # <<>>

\* C7 (as stated): from offset 0, with the list and the page size fixed,
\* L \div P + 1 calls of nextSlide return the offset to 0.
C7_AdvanceFloorPlusOne ==
    advances = (Len(videos) \div itemsPerPage) + 1 => currentIndex = 0

\* C7 (amended): from offset 0, with the list (length L >= 1) and the page
\* size P fixed, ceil(L / P) calls of nextSlide return the offset to 0, and
\* no fewer do unless one page holds the whole list; that is L \div P + 1
\* calls exactly when P does not divide L.
C7_AdvanceCeil ==
    LET L == Len(videos)
        P == itemsPerPage
    IN /\ advances = CeilDiv(L, P) => currentIndex = 0
       /\ (0 < advances /\ advances < CeilDiv(L, P)) =>
              (currentIndex = advances * P /\ currentIndex # 0)
       /\ (L % P # 0 /\ advances = (L \div P) + 1) => currentIndex = 0

\* C7 witness: a full wrap-around of more than one page has been made.
C7_Wrapped ==
    /\ advances = CeilDiv(Len(videos), itemsPerPage)
    /\ advances >= 2
    /\ Len(videos) % itemsPerPage = 0
    /\ currentIndex = 0

\* C8: prevSlide sets the offset to currentIndex - itemsPerPage when that is
\* not negative, and otherwise to max(0, length - itemsPerPage).
C8_RetreatRule ==
    [][ event'.name = "prev" =>
          currentIndex' =
              IF currentIndex - itemsPerPage >= 0
              THEN currentIndex - itemsPerPage
              ELSE Max(0, Len(videos) - itemsPerPage) ]_vars

\* C8 witness: prevSlide has wrapped from the first page to the last window
\* of a list longer than a page.
C8_RetreatWrapped ==
    /\ event.name = "prev"
    /\ Len(videos) > itemsPerPage
    /\ currentIndex = Len(videos) - itemsPerPage

\* C9: goToPage(n) sets currentIndex to
\* min(n * itemsPerPage, max(0, length - itemsPerPage)) for every page n the
\* pager offers, and the result is never negative.
C9_GoToPageClamped ==
    event.name = "goto" =>
        /\ currentIndex =
              Min(event.arg * itemsPerPage,
                  Max(0, Len(videos) - itemsPerPage))
        /\ currentIndex >= 0

\* C21: after any sequence of nextSlide, prevSlide and goToPage on a fixed
\* list and page size, currentIndex is not negative and is a multiple of
\* itemsPerPage unless it is the clamped start of the last window,
\* max(0, length - itemsPerPage).
C21_OffsetAligned ==
    /\ currentIndex >= 0
    /\ \/ currentIndex % itemsPerPage = 0
       \/ currentIndex = Max(0, Len(videos) - itemsPerPage)

\* C22: a resize sets itemsPerPage to 4, 2 or 1 by width tier (>= 1024,
\* >= 768, below); and after a resize or a replacement of the list, an index
\* that was a valid window start is still one: not negative, and below the
\* length of the list whenever the list is not empty.
C22_ReclampedAfterResizeOrRefresh ==
    [][/\ event'.name = "resize" =>
             itemsPerPage' = IF event'.arg >= 1024 THEN 4
                             ELSE IF event'.arg >= 768 THEN 2 ELSE 1
       /\ (/\ event'.name \in {"resize", "videos"}
           /\ 0 <= currentIndex
           /\ Len(videos) > 0 => currentIndex < Len(videos))
          => /\ 0 <= currentIndex'
             /\ Len(videos') > 0 => currentIndex' < Len(videos')]_vars

\* C29: when every fetch the grid started has settled, the lists it shows
\* are those filtered for the identity of the fetch started last, which is
\* the grid's currentUser; after a sign-out they hold no private video.
C29_LatestFetchWins ==
    (fetches = {} /\ started > 0) =>
        /\ shown.allVideos = Filtered(getAllVideos, currentUser).allVideos
        /\ shown.userVideos = Filtered(getAllVideos, currentUser).userVideos
        /\ currentUser = Null =>
               \A v \in Listed(shown.allVideos) : v.isPublic

====
